---------------------------- MODULE Spec2Model ----------------------------
(***************************************************************************)
(* A model of bot.py, the market research Discord bot: the county          *)
(* resolver get_county_from_address, the dataset lookup get_market_data,   *)
(* the report assembled in on_message, the analysis delegate               *)
(* analyze_market_with_ai, and the on_message coroutine itself, whose      *)
(* invocations interleave at its awaits.                                   *)
(*                                                                         *)
(* Text is modelled as a sequence of one-character strings, so that        *)
(* str.replace, str.strip, str.lower and str.startswith are computed and   *)
(* not assumed.                                                            *)
(***************************************************************************)
EXTENDS Naturals, Sequences, FiniteSets

VARIABLES
    callArg,           \* the collaborator response / argument of the call under test
    callRes,           \* the outcome of the call under test
    callPc,            \* "ready" before the call, "done" after it
    missLog,           \* the lines of the miss log file
    pc,                \* where each invocation of on_message stands
    msg,               \* the message each invocation was called with
    address,           \* on_message's local address
    county_name,       \* on_message's local county_name
    data,              \* on_message's local data
    status_message,    \* on_message's local status_message: a message of the channel
    thinking_message,  \* on_message's local thinking_message
    channel,           \* the messages of the channel, by handle
    calls,             \* the stages each invocation has called, in order
    heard              \* what the collaborators answered each invocation

callVars == <<callArg, callRes, callPc, missLog>>

locals == <<address, county_name, data, status_message, thinking_message>>

handlerVars == <<pc, msg, locals, channel, calls, heard>>

vars == <<callVars, handlerVars>>

---------------------------------------------------------------------------
(* Python values and outcomes *)

None == [tag |-> "None"]

Absent == [tag |-> "absent"]

Str(s) == [tag |-> "str", s |-> s]

IsStr(v) == v.tag = "str"

\* A number, and pandas' NaN, the value of a null cell.
Num(n) == [tag |-> "num", n |-> n]

NaN == [tag |-> "nan"]

\* dict.get(key, default), a dict being a function on its keys.
Get(d, key, default) == IF key \in DOMAIN d THEN d[key] ELSE default

Return(v) == [kind |-> "return", value |-> v]

Raise == [kind |-> "raise"]

---------------------------------------------------------------------------
(* str methods *)

UpperAlpha ==
    <<"A", "B", "C", "D", "E", "F", "G", "H", "I", "J", "K", "L", "M",
      "N", "O", "P", "Q", "R", "S", "T", "U", "V", "W", "X", "Y", "Z">>

LowerAlpha ==
    <<"a", "b", "c", "d", "e", "f", "g", "h", "i", "j", "k", "l", "m",
      "n", "o", "p", "q", "r", "s", "t", "u", "v", "w", "x", "y", "z">>

LowerChar(c) ==
    IF \E i \in DOMAIN UpperAlpha : UpperAlpha[i] = c
    THEN LowerAlpha[CHOOSE i \in DOMAIN UpperAlpha : UpperAlpha[i] = c]
    ELSE c

\* str.lower()
Lower(s) == [i \in DOMAIN s |-> LowerChar(s[i])]

Whitespace == {" "}

RECURSIVE LStrip(_)
LStrip(s) ==
    IF s # <<>> /\ s[1] \in Whitespace THEN LStrip(Tail(s)) ELSE s

RECURSIVE RStrip(_)
RStrip(s) ==
    IF s # <<>> /\ s[Len(s)] \in Whitespace
    THEN RStrip(SubSeq(s, 1, Len(s) - 1))
    ELSE s

\* str.strip()
Strip(s) == RStrip(LStrip(s))

\* str.startswith(prefix)
StartsWith(s, prefix) ==
    Len(s) >= Len(prefix) /\ SubSeq(s, 1, Len(prefix)) = prefix

\* str.endswith(suffix)
EndsWith(s, suffix) ==
    Len(s) >= Len(suffix) /\ SubSeq(s, Len(s) - Len(suffix) + 1, Len(s)) = suffix

\* str.replace(old, ""): every non-overlapping occurrence of old, scanning
\* from the left, is removed; what is left is not scanned again.
RECURSIVE Remove(_, _)
Remove(s, old) ==
    IF Len(s) < Len(old) THEN s
    ELSE IF SubSeq(s, 1, Len(old)) = old
         THEN Remove(SubSeq(s, Len(old) + 1, Len(s)), old)
         ELSE <<s[1]>> \o Remove(Tail(s), old)

\* The concatenation of a sequence of strings.
RECURSIVE Concat(_)
Concat(ss) == IF ss = <<>> THEN <<>> ELSE ss[1] \o Concat(Tail(ss))

---------------------------------------------------------------------------
(* get_county_from_address *)

states ==
    <<
       <<<<"a", "l", "a", "b", "a", "m", "a">>, <<"A", "L">>>>,
       <<<<"a", "l", "a", "s", "k", "a">>, <<"A", "K">>>>,
       <<<<"a", "r", "i", "z", "o", "n", "a">>, <<"A", "Z">>>>,
       <<<<"a", "r", "k", "a", "n", "s", "a", "s">>, <<"A", "R">>>>,
       <<<<"c", "a", "l", "i", "f", "o", "r", "n", "i", "a">>, <<"C", "A">>>>,
       <<<<"c", "o", "l", "o", "r", "a", "d", "o">>, <<"C", "O">>>>,
       <<<<"c", "o", "n", "n", "e", "c", "t", "i", "c", "u", "t">>, <<"C", "T">>>>,
       <<<<"d", "e", "l", "a", "w", "a", "r", "e">>, <<"D", "E">>>>,
       <<<<"f", "l", "o", "r", "i", "d", "a">>, <<"F", "L">>>>,
       <<<<"g", "e", "o", "r", "g", "i", "a">>, <<"G", "A">>>>,
       <<<<"h", "a", "w", "a", "i", "i">>, <<"H", "I">>>>,
       <<<<"i", "d", "a", "h", "o">>, <<"I", "D">>>>,
       <<<<"i", "l", "l", "i", "n", "o", "i", "s">>, <<"I", "L">>>>,
       <<<<"i", "n", "d", "i", "a", "n", "a">>, <<"I", "N">>>>,
       <<<<"i", "o", "w", "a">>, <<"I", "A">>>>,
       <<<<"k", "a", "n", "s", "a", "s">>, <<"K", "S">>>>,
       <<<<"k", "e", "n", "t", "u", "c", "k", "y">>, <<"K", "Y">>>>,
       <<<<"l", "o", "u", "i", "s", "i", "a", "n", "a">>, <<"L", "A">>>>,
       <<<<"m", "a", "i", "n", "e">>, <<"M", "E">>>>,
       <<<<"m", "a", "r", "y", "l", "a", "n", "d">>, <<"M", "D">>>>,
       <<<<"m", "a", "s", "s", "a", "c", "h", "u", "s", "e", "t", "t", "s">>, <<"M", "A">>>>,
       <<<<"m", "i", "c", "h", "i", "g", "a", "n">>, <<"M", "I">>>>,
       <<<<"m", "i", "n", "n", "e", "s", "o", "t", "a">>, <<"M", "N">>>>,
       <<<<"m", "i", "s", "s", "i", "s", "s", "i", "p", "p", "i">>, <<"M", "S">>>>,
       <<<<"m", "i", "s", "s", "o", "u", "r", "i">>, <<"M", "O">>>>,
       <<<<"m", "o", "n", "t", "a", "n", "a">>, <<"M", "T">>>>,
       <<<<"n", "e", "b", "r", "a", "s", "k", "a">>, <<"N", "E">>>>,
       <<<<"n", "e", "v", "a", "d", "a">>, <<"N", "V">>>>,
       <<<<"n", "e", "w", " ", "h", "a", "m", "p", "s", "h", "i", "r", "e">>, <<"N", "H">>>>,
       <<<<"n", "e", "w", " ", "j", "e", "r", "s", "e", "y">>, <<"N", "J">>>>,
       <<<<"n", "e", "w", " ", "m", "e", "x", "i", "c", "o">>, <<"N", "M">>>>,
       <<<<"n", "e", "w", " ", "y", "o", "r", "k">>, <<"N", "Y">>>>,
       <<<<"n", "o", "r", "t", "h", " ", "c", "a", "r", "o", "l", "i", "n", "a">>, <<"N", "C">>>>,
       <<<<"n", "o", "r", "t", "h", " ", "d", "a", "k", "o", "t", "a">>, <<"N", "D">>>>,
       <<<<"o", "h", "i", "o">>, <<"O", "H">>>>,
       <<<<"o", "k", "l", "a", "h", "o", "m", "a">>, <<"O", "K">>>>,
       <<<<"o", "r", "e", "g", "o", "n">>, <<"O", "R">>>>,
       <<<<"p", "e", "n", "n", "s", "y", "l", "v", "a", "n", "i", "a">>, <<"P", "A">>>>,
       <<<<"r", "h", "o", "d", "e", " ", "i", "s", "l", "a", "n", "d">>, <<"R", "I">>>>,
       <<<<"s", "o", "u", "t", "h", " ", "c", "a", "r", "o", "l", "i", "n", "a">>, <<"S", "C">>>>,
       <<<<"s", "o", "u", "t", "h", " ", "d", "a", "k", "o", "t", "a">>, <<"S", "D">>>>,
       <<<<"t", "e", "n", "n", "e", "s", "s", "e", "e">>, <<"T", "N">>>>,
       <<<<"t", "e", "x", "a", "s">>, <<"T", "X">>>>,
       <<<<"u", "t", "a", "h">>, <<"U", "T">>>>,
       <<<<"v", "e", "r", "m", "o", "n", "t">>, <<"V", "T">>>>,
       <<<<"v", "i", "r", "g", "i", "n", "i", "a">>, <<"V", "A">>>>,
       <<<<"w", "a", "s", "h", "i", "n", "g", "t", "o", "n">>, <<"W", "A">>>>,
       <<<<"w", "e", "s", "t", " ", "v", "i", "r", "g", "i", "n", "i", "a">>, <<"W", "V">>>>,
       <<<<"w", "i", "s", "c", "o", "n", "s", "i", "n">>, <<"W", "I">>>>,
       <<<<"w", "y", "o", "m", "i", "n", "g">>, <<"W", "Y">>>>
    >>

\* dict.get(key) on the states table: the code, or None.
StatesGet(name) ==
    IF \E i \in DOMAIN states : states[i][1] = name
    THEN Str(states[CHOOSE i \in DOMAIN states : states[i][1] = name][2])
    ELSE None

CountySuffix == <<" ", "C", "o", "u", "n", "t", "y">>

CommaSpace == <<",", " ">>

\* A geocoding outcome is one of
\*   [kind |-> "raise"]     geolocator.geocode raised (transport, timeout)
\*   [kind |-> "none"]      no result: location is None
\*   [kind |-> "noaddress"] a result whose raw has no 'address' key
\*   [kind |-> "badaddress"] a result whose raw['address'] is not a mapping
\*   [kind |-> "ok", county |-> v, state |-> w]
\*       raw['address'], v and w each Absent, None or Str(text)

\* Python truthiness of the value of .get('county').
Truthy(v) == IsStr(v) /\ v.s # <<>>

\* ResolveTry without lines 45-46: a state the table does not know is put in
\* the key as it is.
ResolveTry_NoStateCheck(location) ==
    CASE location.kind = "raise" -> Raise
      [] location.kind = "none" -> Return(None)
      [] location.kind = "noaddress" -> Return(None)
      [] location.kind = "badaddress" -> Raise
      [] location.kind = "ok" ->
            IF ~Truthy(location.county) THEN Return(None)
            ELSE IF location.state = None THEN Raise
            ELSE LET state_full_name ==
                         IF location.state = Absent THEN <<>>
                         ELSE Lower(location.state.s)
                     state_abbr == StatesGet(state_full_name)
                     county == Strip(Remove(location.county.s, CountySuffix))
                 IN  Return(Str(county \o CommaSpace
                                \o (IF state_abbr = None THEN state_full_name
                                    ELSE state_abbr.s)))

\* The body of the try block, lines 39-51: the outcome Raise stands for an
\* exception leaving the block.
ResolveTry(location) ==
    CASE location.kind = "raise" -> Raise
      [] location.kind = "none" -> Return(None)
      [] location.kind = "noaddress" -> Return(None)
      [] location.kind = "badaddress" -> Raise
      [] location.kind = "ok" ->
            IF ~Truthy(location.county) THEN Return(None)
            ELSE IF location.state = None THEN Raise  \* None.lower()
            ELSE LET state_full_name ==
                         IF location.state = Absent THEN <<>>
                         ELSE Lower(location.state.s)
                     state_abbr == StatesGet(state_full_name)
                 IN  IF state_abbr = None THEN Return(None)
                     ELSE LET county == Strip(Remove(location.county.s, CountySuffix))
                          IN  Return(Str(county \o CommaSpace \o state_abbr.s))

\* get_county_from_address without its except clause.
get_county_from_address_uncaught(location) == ResolveTry(location)

\* try: ... except Exception: return None
get_county_from_address(location) ==
    LET r == ResolveTry(location)
    IN  IF r.kind = "raise" THEN Return(None) ELSE r

---------------------------------------------------------------------------
(* get_market_data *)

\* The dataset file merged_reventure_data.csv at the time it is read is one of
\*   [kind |-> "unreadable"]  pd.read_csv raises (no file, not a CSV)
\*   [kind |-> "nocolumn"]    a table without a County column: df['County'] raises
\*   [kind |-> "table", rows |-> <<row, ...>>]
\*       each row a function from column names to Str, Num or NaN values

\* df['County'].str.lower() == county_name.lower(), for one row: a null
\* County is equal to nothing.
RowMatches(row, name) ==
    IsStr(row["County"]) /\ Lower(row["County"].s) = Lower(name)

\* The rows of df[...], in the order of the file.
MatchingRows(rows, name) ==
    SelectSeq(rows, LAMBDA row : RowMatches(row, name))

\* The body of the try block, lines 132-134.
LookupTry(dataset, name) ==
    CASE dataset.kind = "unreadable" -> Raise
      [] dataset.kind = "nocolumn" -> Raise
      [] dataset.kind = "table" ->
            LET county_data_row == MatchingRows(dataset.rows, name)
            IN  IF county_data_row # <<>>
                THEN Return(county_data_row[1])
                ELSE Return(None)

\* try: ... except Exception: return None
get_market_data(dataset, name) ==
    LET r == LookupTry(dataset, name)
    IN  IF r.kind = "raise" THEN Return(None) ELSE r

---------------------------------------------------------------------------
(* f-string formatting, and the report of on_message *)

DigitChars == <<"0", "1", "2", "3", "4", "5", "6", "7", "8", "9">>

\* str(n) of a natural number.
RECURSIVE Digits(_)
Digits(n) ==
    IF n < 10 THEN <<DigitChars[n + 1]>>
    ELSE Digits(n \div 10) \o <<DigitChars[(n % 10) + 1]>>

\* The "," of a format spec: a comma before every group of three digits.
RECURSIVE Grouped(_)
Grouped(d) ==
    IF Len(d) <= 3 THEN d
    ELSE Grouped(SubSeq(d, 1, Len(d) - 3)) \o <<",">> \o SubSeq(d, Len(d) - 2, Len(d))

NA == <<"N", "/", "A">>

NanText == <<"n", "a", "n">>

\* format(v, spec) for the specs of the report: "" ({v}), "," ({v:,}) and
\* ",.2f" ({v:,.2f}). A str takes neither "," nor "f": ValueError.
Format(v, spec) ==
    CASE v.tag = "nan" -> Return(Str(NanText))
      [] v.tag = "str" -> IF spec = "" THEN Return(v) ELSE Raise
      [] v.tag = "num" ->
            CASE spec = "" -> Return(Str(Digits(v.n)))
              [] spec = "," -> Return(Str(Grouped(Digits(v.n))))
              [] spec = ",.2f" ->
                    Return(Str(Grouped(Digits(v.n)) \o <<".", "0", "0">>))

Header(title) ==
    [type |-> "header", label |-> title, key |-> "", default |-> None,
     spec |-> "", prefix |-> <<>>, suffix |-> <<>>]

Field(label, key, default, spec, prefix, suffix) ==
    [type |-> "field", label |-> label, key |-> key, default |-> default,
     spec |-> spec, prefix |-> prefix, suffix |-> suffix]

Pct == <<"%">>

\* raw_data_string, lines 175-195, line by line.
ReportLayout ==
    << Header("Market Stats"),
       Field("Days on Market", "Days_on_Market", Str(NA), "", <<>>, <<>>),
       Field("Days on Market Growth (YoY)", "Days_On_Market_Growth_YoY", Str(NA), "", <<>>, Pct),
       Field("Home Sales Growth (YoY)", "Home_Sales_Growth_YoY", Str(NA), "", <<>>, Pct),
       Field("Sale Inventory Growth (YoY)", "Sale_Inventory_Growth_YoY", Str(NA), "", <<>>, Pct),
       Field("Inventory Surplus/Deficit", "Inventory_Surplus_Deficit", Str(NA), "", <<>>, Pct),
       Field("Price Cut %", "Price_Cut_Percentage", Str(NA), "", <<>>, Pct),
       Header("Demographic Stats"),
       Field("Population", "Population", Str(NA), ",", <<>>, <<>>),
       Field("Population Growth", "Population_Growth", Str(NA), "", <<>>, Pct),
       Field("Median Age", "Median_Age", Str(NA), "", <<>>, <<>>),
       Header("Investor Stats"),
       Field("Avg Home Value", "Avg_Home_Value", Num(0), ",.2f", <<"$">>, <<>>),
       Field("Home Value Growth (YoY)", "Home_Value_Growth_YoY", Str(NA), "", <<>>, Pct),
       Field("Cap Rate %", "Cap_Rate", Str(NA), "", <<>>, Pct),
       Field("Vacancy Rate", "Vacancy_Rate", Str(NA), "", <<>>, Pct),
       Field("Housing Unit Growth Rate", "Housing_Unit_Growth_Rate", Str(NA), "", <<>>, Pct),
       Header("Scoring Stats"),
       Field("Home Price Forecast", "Home_Price_Forecast", Str(NA), "", <<>>, <<>>) >>

\* One replacement field of the f-string: {data.get(key, default):spec}.
FieldValue(d, e) == Format(Get(d, e.key, e.default), e.spec)

\* The evaluation of raw_data_string: the lines of the report, or the
\* ValueError of the first field that cannot be formatted.
Assemble(d) ==
    IF \E i \in DOMAIN ReportLayout :
          ReportLayout[i].type = "field" /\ FieldValue(d, ReportLayout[i]) = Raise
    THEN Raise
    ELSE Return([i \in DOMAIN ReportLayout |->
                    LET e == ReportLayout[i]
                    IN  [type |-> e.type, label |-> e.label, key |-> e.key,
                         prefix |-> e.prefix, suffix |-> e.suffix,
                         value |-> IF e.type = "header" THEN <<>>
                                   ELSE FieldValue(d, e).value.s]])

---------------------------------------------------------------------------
(* analyze_market_with_ai *)

\* An answer of openai.chat.completions.create is one of
\*   [kind |-> "raise"]                 the call raised (API error, timeout)
\*   [kind |-> "ok", content |-> v]     v the content of the first choice,
\*                                      None or Str(text)

EmptyAnalysis == [kind |-> "placeholder", text |-> "AI analysis returned empty."]

ErrorAnalysis == [kind |-> "placeholder", text |-> "Error: Could not get analysis from AI."]

Analysis(s) == [kind |-> "analysis", text |-> s]

\* data_string, lines 62-75, is built before the try: of its fields only
\* Avg_Home_Value has a format spec that can raise.
DataString(market_data) == Format(Get(market_data, "Avg_Home_Value", Num(0)), ",.2f")

\* The body of the try block, lines 112-122.
AnalyzeTry(response) ==
    CASE response.kind = "raise" -> Raise
      [] response.kind = "ok" ->
            IF response.content # None /\ response.content.s # <<>>
            THEN Return(Analysis(response.content.s))
            ELSE Return(EmptyAnalysis)

\* data_string, then try: ... except Exception: return the error text
analyze_market_with_ai(market_data, response) ==
    IF DataString(market_data) = Raise THEN Raise
    ELSE LET r == AnalyzeTry(response)
         IN  IF r.kind = "raise" THEN Return(ErrorAnalysis) ELSE r

---------------------------------------------------------------------------
(* on_message *)

NumRequests == 2

\* The invocations of on_message, one for each message of the channel.
Requests == 1..NumRequests

Command == <<"!", "m", "a", "r", "k", "e", "t">>

\* message.content.replace('!market', '').strip()
Address_Unstripped(content) == Remove(content, Command)

Address(content) == Strip(Remove(content, Command))

\* The messages of the channel. A handle names the message a send returned:
\* the invocation that sent it and which of its sends it was.
Roles == {"usage", "status", "embed", "thinking"}

Handles == Requests \X Roles

Unsent == [content |-> "unsent"]

NoEmbed == [title |-> "none"]

Text(template, arg) == [template |-> template, arg |-> arg]

Message(content, embed) == [content |-> content, embed |-> embed]

UsageHint == Message(Text("Please provide a full address.", <<>>), NoEmbed)

Analyzing(a) == Message(Text("Analyzing {address}...", a), NoEmbed)

CouldNotDetermine(a) ==
    Message(Text("Could not determine the county from {address}.", a), NoEmbed)

NoDataFound(c) ==
    Message(Text("No data found for {county_name} in the CSV file.", c), NoEmbed)

DataFound == Message(Text("Data found! Here are the stats:", <<>>), NoEmbed)

DataEmbed(d, lines) ==
    Message(Text("", <<>>),
            [title |-> "Raw Data for {County}", county |-> Get(d, "County", None),
             description |-> lines])

Thinking == Message(Text("Now sending to AI for analysis and talking points...", <<>>), NoEmbed)

AnalysisEmbed(ai_analysis) ==
    Message(Text("", <<>>),
            [title |-> "AI Analysis & Conversation Starters", description |-> ai_analysis])

\* The frame that holds the locals of invocation r: each call of the
\* coroutine has its own.
Frame_Shared(r) == 1

Frame(r) == r

Unread == [kind |-> "unread"]

\* Lines 163-203 where the first return is missing: a county that was not
\* determined is looked up all the same.
Pipeline_NoReturn(a, location, dataset) ==
    LET county == get_county_from_address(location).value
        found == get_market_data(dataset, IF county = None THEN <<>> ELSE county.s).value
    IN  IF found = None
        THEN [calls |-> <<"resolve", "lookup">>, county_name |-> county, data |-> None,
              dataset |-> dataset, edit |-> NoDataFound(county), next |-> "done"]
        ELSE LET report == Assemble(found)
             IN  IF report.kind = "raise"
                 THEN [calls |-> <<"resolve", "lookup", "assemble">>,
                       county_name |-> county, data |-> found, dataset |-> dataset,
                       edit |-> Unsent, next |-> "crashed"]
                 ELSE [calls |-> <<"resolve", "lookup", "assemble">>,
                       county_name |-> county, data |-> found, dataset |-> dataset,
                       edit |-> DataFound, next |-> "send_embed"]

\* Lines 163-203, from the resumption after the first send to the next
\* await: the stages called, the locals assigned, the edit of the status
\* message (Unsent: none, an exception left on_message first) and where the
\* invocation goes on. The dataset is read only when the county was found.
Pipeline(a, location, dataset) ==
    LET county == get_county_from_address(location).value
    IN  IF county = None
        THEN [calls |-> <<"resolve">>, county_name |-> None, data |-> None,
              dataset |-> Unread, edit |-> CouldNotDetermine(a), next |-> "done"]
        ELSE LET found == get_market_data(dataset, county.s).value
             IN  IF found = None
                 THEN [calls |-> <<"resolve", "lookup">>, county_name |-> county,
                       data |-> None, dataset |-> dataset,
                       edit |-> NoDataFound(county), next |-> "done"]
                 ELSE LET report == Assemble(found)
                      IN  IF report.kind = "raise"
                          THEN [calls |-> <<"resolve", "lookup", "assemble">>,
                                county_name |-> county, data |-> found,
                                dataset |-> dataset, edit |-> Unsent, next |-> "crashed"]
                          ELSE [calls |-> <<"resolve", "lookup", "assemble">>,
                                county_name |-> county, data |-> found,
                                dataset |-> dataset, edit |-> DataFound,
                                next |-> "send_embed"]

Self == "client.user"

User == "user"

\* No message has come in yet.
HandlerInit ==
    /\ pc = [r \in Requests |-> "idle"]
    /\ msg = [r \in Requests |-> None]
    /\ address = [r \in Requests |-> None]
    /\ county_name = [r \in Requests |-> None]
    /\ data = [r \in Requests |-> None]
    /\ status_message = [r \in Requests |-> None]
    /\ thinking_message = [r \in Requests |-> None]
    /\ channel = [h \in Handles |-> Unsent]
    /\ calls = [r \in Requests |-> <<>>]
    /\ heard = [r \in Requests |->
                  [location |-> Unread, dataset |-> Unread, analysis |-> Unread]]

---------------------------------------------------------------------------
(* The geocoding outcomes the resolver is run on *)

MaxCountyPieces == 3

SeqsUpTo(S, n) == UNION {[1..k -> S] : k \in 0..n}

CountyPieces ==
    { <<"L", "a", "k", "e">>,
      CountySuffix,
      <<" ", "c", "o", "u", "n", "t", "y">>,
      <<" ">>,
      <<" ", "o", "f">> }

\* "", "Lake County", "Lake County of", " County Lake", "Lake county", ...
CountyTexts == {Concat(ps) : ps \in SeqsUpTo(CountyPieces, MaxCountyPieces)}

StateTexts ==
    { <<"T", "e", "x", "a", "s">>,
      <<"T", "E", "X", "A", "S">>,
      <<"t", "e", "x", "a", "s">>,
      <<"N", "e", "w", " ", "Y", "o", "r", "k">>,
      <<"O", "h", "i", "o">>,
      <<"P", "u", "e", "r", "t", "o", " ", "R", "i", "c", "o">>,
      <<"T", "e", "x", "a", "s", " ">>,
      <<"T", "X">>,
      <<>> }

CountyValues == {Absent, None} \cup {Str(c) : c \in CountyTexts}

StateValues == {Absent, None} \cup {Str(s) : s \in StateTexts}

Locations ==
    { [kind |-> k] : k \in {"raise", "none", "noaddress", "badaddress"} }
    \cup [kind : {"ok"}, county : CountyValues, state : StateValues]

---------------------------------------------------------------------------
(* The resolver on its own *)

InitResolve ==
    /\ callPc = "ready"
    /\ callArg = None
    /\ callRes = None
    /\ missLog = <<>>
    /\ HandlerInit

CallResolver ==
    /\ callPc = "ready"
    /\ \E location \in Locations :
          /\ callArg' = location
          /\ callRes' = get_county_from_address(location)
    /\ callPc' = "done"
    /\ UNCHANGED <<missLog, handlerVars>>

NextResolve == CallResolver

SpecResolve == InitResolve /\ [][NextResolve]_vars

Resolved == callPc = "done"

InTable(stateText) == StatesGet(Lower(stateText)) # None

\* The county as the specification words it: a trailing " County" removed,
\* then the surrounding whitespace.
SuffixStripped(county) ==
    Strip(IF EndsWith(county, CountySuffix)
          THEN SubSeq(county, 1, Len(county) - Len(CountySuffix))
          ELSE county)

HasCountyAndState ==
    /\ Resolved
    /\ callArg.kind = "ok"
    /\ Truthy(callArg.county)
    /\ IsStr(callArg.state)
    /\ InTable(callArg.state.s)

ClaimedKey(county, stateText) ==
    Return(Str(county \o CommaSpace \o StatesGet(Lower(stateText)).s))

\* C1: a response with a non-empty county and a state of the table yields
\* "<c>, <ST>", <ST> the table's code of the lowercased state and <c> the
\* county less a trailing " County" only, trimmed (the whitespace going
\* before or after the suffix does); a " County" elsewhere in the name stays.
C1_SuffixOnly ==
    HasCountyAndState =>
        callRes \in { ClaimedKey(SuffixStripped(callArg.county.s), callArg.state.s),
                      ClaimedKey(SuffixStripped(RStrip(callArg.county.s)), callArg.state.s),
                      ClaimedKey(SuffixStripped(Strip(callArg.county.s)), callArg.state.s) }

NoKeyCase ==
    /\ Resolved
    /\ \/ callArg.kind \in {"none", "noaddress"}
       \/ /\ callArg.kind = "ok"
          /\ \/ callArg.county = Absent
             \/ callArg.state = Absent
             \/ IsStr(callArg.state) /\ ~InTable(callArg.state.s)

\* C2: an empty response, a missing county, a missing state or a state that
\* is not in the table yields None, never a key.
C2_NotFound == NoKeyCase => callRes = Return(None)

C2_Witness ==
    /\ NoKeyCase
    /\ callArg.kind = "ok"
    /\ Truthy(callArg.county)
    /\ IsStr(callArg.state)
    /\ callArg.state.s # <<>>
    /\ callRes = Return(None)

CollaboratorError ==
    /\ Resolved
    /\ \/ callArg.kind \in {"raise", "badaddress"}
       \/ callArg.kind = "ok" /\ Truthy(callArg.county) /\ callArg.state = None

\* C3: an error of the geocoding collaborator yields None, and no outcome of
\* the resolver is an exception.
C3_NeverRaises ==
    Resolved =>
        /\ callRes.kind = "return"
        /\ CollaboratorError => callRes = Return(None)

C3_Witness == CollaboratorError /\ callArg.kind = "raise" /\ callRes = Return(None)

---------------------------------------------------------------------------
(* The dataset lookup on its own *)

MaxRows == 2

LakeTX == <<"L", "a", "k", "e", ",", " ", "T", "X">>

PolkOH == <<"P", "o", "l", "k", ",", " ", "O", "H">>

CountyColumn ==
    { Str(LakeTX),
      Str(<<"L", "A", "K", "E", ",", " ", "T", "X">>),
      Str(<<"l", "a", "k", "e", ",", " ", "t", "x">>),
      Str(PolkOH),
      Str(<<"L", "a", "k", "e">>),
      NaN }

LookupRows == [{"County"} -> CountyColumn]

LookupRowsNumbered ==
    { [c \in {"County", "Population"} |->
          IF c = "County" THEN row["County"] ELSE Num(n)] :
      row \in LookupRows, n \in 1..MaxRows }

LookupDatasets ==
    { [kind |-> k] : k \in {"unreadable", "nocolumn"} }
    \cup { [kind |-> "table", rows |-> rows] :
           rows \in SeqsUpTo(LookupRowsNumbered, MaxRows) }

LookupKeys ==
    { LakeTX,
      <<"l", "a", "k", "e", ",", " ", "T", "X">>,
      PolkOH,
      <<"K", "e", "n", "t", ",", " ", "T", "X">> }

InitLookup ==
    /\ callPc = "ready"
    /\ callArg = None
    /\ callRes = None
    /\ missLog = <<>>
    /\ HandlerInit

\* One call of get_market_data: it reads the dataset and writes no file.
CallLookup ==
    /\ callPc = "ready"
    /\ \E dataset \in LookupDatasets, name \in LookupKeys :
          /\ callArg' = [dataset |-> dataset, county_name |-> name]
          /\ callRes' = get_market_data(dataset, name)
    /\ callPc' = "done"
    /\ UNCHANGED <<missLog, handlerVars>>

NextLookup == CallLookup

SpecLookup == InitLookup /\ [][NextLookup]_vars

Looked == callPc = "done"

Loaded == Looked /\ callArg.dataset.kind = "table"

KeyPresent ==
    /\ Loaded
    /\ \E i \in DOMAIN callArg.dataset.rows :
          RowMatches(callArg.dataset.rows[i], callArg.county_name)

FirstMatch ==
    LET rows == callArg.dataset.rows
        i == CHOOSE i \in DOMAIN rows :
                /\ RowMatches(rows[i], callArg.county_name)
                /\ \A j \in 1..(i - 1) : ~RowMatches(rows[j], callArg.county_name)
    IN  rows[i]

\* C4: a key equal, case-insensitively, to a County of the dataset yields
\* the first such row and leaves the miss log alone; a key equal to none
\* yields None and adds to the miss log one line, the key.
C4_HitOrLoggedMiss ==
    /\ KeyPresent => callRes = Return(FirstMatch) /\ missLog = <<>>
    /\ Loaded /\ ~KeyPresent => callRes = Return(None) /\ missLog = <<callArg.county_name>>

\* What holds of the code in the case of C4: the row or None, and no file written.
LookupHitOrMiss ==
    /\ KeyPresent => callRes = Return(FirstMatch)
    /\ Loaded /\ ~KeyPresent => callRes = Return(None)
    /\ missLog = <<>>
    /\ HandlerInit

\* C5: a dataset that cannot be loaded yields an outcome that is not the
\* outcome of a key without a match.
C5_DistinctUnavailable ==
    Looked /\ callArg.dataset.kind = "unreadable" => callRes # Return(None)

---------------------------------------------------------------------------
(* The report assembly on its own *)

MaxDamaged == 2

ReportKeys ==
    {ReportLayout[i].key : i \in {j \in DOMAIN ReportLayout : ReportLayout[j].type = "field"}}

SampleValue == Num(125000)

\* A row of the dataset in which the columns of nulls are null and the
\* columns of gone are not in the file.
Row(county, nulls, gone) ==
    [c \in ({"County"} \cup ReportKeys) \ gone |->
        IF c = "County" THEN Str(county)
        ELSE IF c \in nulls THEN NaN ELSE SampleValue]

SubsetsUpTo(S, n) == {X \in SUBSET S : Cardinality(X) <= n}

\* Up to MaxDamaged columns are damaged, each one null or gone.
ReportRows ==
    { Row(LakeTX, nulls, damaged \ nulls) :
        <<damaged, nulls>> \in
            { <<d, n>> \in SubsetsUpTo(ReportKeys, MaxDamaged) \X SubsetsUpTo(ReportKeys, MaxDamaged) :
                  n \subseteq d } }
    \cup { Row(LakeTX, ReportKeys, {}), Row(LakeTX, {}, ReportKeys) }

InitReport ==
    /\ callPc = "ready"
    /\ callArg = None
    /\ callRes = None
    /\ missLog = <<>>
    /\ HandlerInit

CallAssemble ==
    /\ callPc = "ready"
    /\ \E row \in ReportRows :
          /\ callArg' = row
          /\ callRes' = Assemble(row)
    /\ callPc' = "done"
    /\ UNCHANGED <<missLog, handlerVars>>

NextReport == CallAssemble

SpecReport == InitReport /\ [][NextReport]_vars

Assembled == callPc = "done"

HeaderTitles(lines) ==
    LET hs == SelectSeq(lines, LAMBDA l : l.type = "header")
    IN  [i \in DOMAIN hs |-> hs[i].label]

NullOrAbsent(d, key) == key \notin DOMAIN d \/ d[key] = NaN

\* C6: whichever fields of the record are null or absent, the assembly ends
\* without an error, the report has the four headers in the order Market,
\* Demographic, Investor, Scoring, and each null or absent field reads "N/A".
C6_AlwaysNA ==
    Assembled =>
        /\ callRes.kind = "return"
        /\ HeaderTitles(callRes.value) =
              <<"Market Stats", "Demographic Stats", "Investor Stats", "Scoring Stats">>
        /\ \A i \in DOMAIN callRes.value :
              LET l == callRes.value[i]
              IN  l.type = "field" /\ NullOrAbsent(callArg, l.key) => l.value = NA

\* What holds of the code in the case of C6: the headers whenever the
\* assembly ends, and "N/A" for an absent field other than Population and
\* Avg_Home_Value.
ReportWhenAssembled ==
    Assembled =>
        /\ callRes.kind = "raise" <=>
              "Population" \notin DOMAIN callArg
        /\ callRes.kind = "return" =>
              /\ HeaderTitles(callRes.value) =
                    <<"Market Stats", "Demographic Stats", "Investor Stats", "Scoring Stats">>
              /\ \A i \in DOMAIN callRes.value :
                    LET l == callRes.value[i]
                    IN  l.type = "field" =>
                          /\ l.key \notin DOMAIN callArg /\ l.key # "Avg_Home_Value"
                                => l.value = NA
                          /\ l.key \in DOMAIN callArg /\ callArg[l.key] = NaN
                                => l.value = NanText

---------------------------------------------------------------------------
(* on_message, its invocations interleaving at the awaits *)

HandlerContents ==
    { Command,
      Command \o <<" ", " ">>,
      Command \o <<" ", "a">>,
      Command \o <<" ", " ", "b", " ">>,
      <<"h", "i">> }

BotContents == { <<"P", "l", "e", "a", "s", "e">> }

HandlerMessages ==
    [author : {User}, content : HandlerContents]
    \cup [author : {Self}, content : BotContents]

LakeCounty == <<"L", "a", "k", "e">> \o CountySuffix

HandlerLocations ==
    { [kind |-> "raise"],
      [kind |-> "ok", county |-> Str(LakeCounty), state |-> Str(<<"T", "e", "x", "a", "s">>)],
      [kind |-> "ok", county |-> Str(LakeCounty),
       state |-> Str(<<"P", "u", "e", "r", "t", "o", " ", "R", "i", "c", "o">>)] }

\* No file; no row of the county; two rows of it, the first with null cells
\* and a column less; a file without the Population column.
HandlerDatasets ==
    { [kind |-> "unreadable"],
      [kind |-> "table", rows |-> <<Row(PolkOH, {}, {})>>],
      [kind |-> "table", rows |-> <<Row(LakeTX, {"Median_Age", "Avg_Home_Value"}, {"Cap_Rate"}),
                                     Row(LakeTX, {}, {})>>],
      [kind |-> "table", rows |-> <<Row(LakeTX, {}, {"Population"})>>] }

HandlerAnswers ==
    { [kind |-> "raise"],
      [kind |-> "ok", content |-> Str(<<>>)],
      [kind |-> "ok", content |-> Str(<<"B", "u", "y">>)] }

Init ==
    /\ callPc = "ready"
    /\ callArg = None
    /\ callRes = None
    /\ missLog = <<>>
    /\ HandlerInit

\* Lines 152-161: on_message is called with a message and runs to its first
\* await, or returns.
Receive(r) ==
    /\ pc[r] = "idle"
    /\ \E m \in HandlerMessages :
          /\ msg' = [msg EXCEPT ![r] = m]
          /\ IF m.author = Self \/ ~StartsWith(m.content, Command)
             THEN /\ pc' = [pc EXCEPT ![r] = "done"]
                  /\ UNCHANGED <<address, status_message, channel>>
             ELSE IF Address(m.content) = <<>>
             THEN /\ channel' = [channel EXCEPT ![<<r, "usage">>] = UsageHint]
                  /\ pc' = [pc EXCEPT ![r] = "done"]
                  /\ UNCHANGED <<address, status_message>>
             ELSE /\ address' = [address EXCEPT ![Frame(r)] = Address(m.content)]
                  /\ channel' = [channel EXCEPT ![<<r, "status">>] =
                                    Analyzing(Address(m.content))]
                  /\ status_message' = [status_message EXCEPT ![Frame(r)] = <<r, "status">>]
                  /\ pc' = [pc EXCEPT ![r] = "resolve"]
    /\ UNCHANGED <<county_name, data, thinking_message, calls, heard, callVars>>

\* Lines 163-203: the resolver, the lookup and the assembly run without an
\* await between them; the invocation then edits its status message, or an
\* exception of the assembly leaves on_message.
ResolveLookupAssemble(r) ==
    /\ pc[r] = "resolve"
    /\ \E location \in HandlerLocations, dataset \in HandlerDatasets :
          LET p == Pipeline(address[Frame(r)], location, dataset)
          IN  /\ county_name' = [county_name EXCEPT ![Frame(r)] = p.county_name]
              /\ data' = [data EXCEPT ![Frame(r)] = p.data]
              /\ calls' = [calls EXCEPT ![r] = @ \o p.calls]
              /\ heard' = [heard EXCEPT ![r].location = location,
                                        ![r].dataset = p.dataset]
              /\ channel' = IF p.edit = Unsent THEN channel
                            ELSE [channel EXCEPT ![status_message[Frame(r)]] = p.edit]
              /\ pc' = [pc EXCEPT ![r] = p.next]
    /\ UNCHANGED <<msg, address, status_message, thinking_message, callVars>>

\* Line 204: the embed of the report is sent.
SendEmbed(r) ==
    /\ pc[r] = "send_embed"
    /\ channel' = [channel EXCEPT ![<<r, "embed">>] =
                      DataEmbed(data[Frame(r)], Assemble(data[Frame(r)]).value)]
    /\ pc' = [pc EXCEPT ![r] = "send_thinking"]
    /\ UNCHANGED <<msg, locals, calls, heard, callVars>>

\* Line 206: the thinking message is sent.
SendThinking(r) ==
    /\ pc[r] = "send_thinking"
    /\ channel' = [channel EXCEPT ![<<r, "thinking">>] = Thinking]
    /\ thinking_message' = [thinking_message EXCEPT ![Frame(r)] = <<r, "thinking">>]
    /\ pc' = [pc EXCEPT ![r] = "analyze"]
    /\ UNCHANGED <<msg, address, county_name, data, status_message, calls, heard, callVars>>

\* Lines 207-214: the analysis is asked for and put in the thinking message.
Analyze(r) ==
    /\ pc[r] = "analyze"
    /\ \E response \in HandlerAnswers :
          LET ai_analysis == analyze_market_with_ai(data[Frame(r)], response)
          IN  /\ calls' = [calls EXCEPT ![r] = Append(@, "analysis")]
              /\ heard' = [heard EXCEPT ![r].analysis = response]
              /\ IF ai_analysis.kind = "raise"
                 THEN /\ pc' = [pc EXCEPT ![r] = "crashed"]
                      /\ UNCHANGED channel
                 ELSE /\ channel' = [channel EXCEPT ![thinking_message[Frame(r)]] =
                                        AnalysisEmbed(ai_analysis.value)]
                      /\ pc' = [pc EXCEPT ![r] = "done"]
    /\ UNCHANGED <<msg, locals, callVars>>

Next ==
    \E r \in Requests :
        \/ Receive(r)
        \/ ResolveLookupAssemble(r)
        \/ SendEmbed(r)
        \/ SendThinking(r)
        \/ Analyze(r)

Spec == Init /\ [][Next]_vars

---------------------------------------------------------------------------
(* What on_message is said to do *)

\* The messages invocation r has sent, as they now stand in the channel.
Own(r) == [role \in Roles |-> channel[<<r, role>>]]

Nothing == [role \in Roles |-> Unsent]

Only(role, m) == [Nothing EXCEPT ![role] = m]

\* The key the resolver returned to r and the row the lookup returned to it,
\* from what the collaborators answered.
KeyOf(r) == get_county_from_address(heard[r].location).value

RowOf(r) == get_market_data(heard[r].dataset, KeyOf(r).s).value

ResolverCalled(r) == heard[r].location # Unread

LookupCalled(r) == heard[r].dataset # Unread

LookupSucceeded(r) == LookupCalled(r) /\ RowOf(r) # None

AnalysisCalled(r) == heard[r].analysis # Unread

Unusable(response) ==
    response.kind = "raise" \/ response.content = None \/ response.content.s = <<>>

\* C7: once the lookup has returned a row, no error ends the request, and
\* the request ends with the report of the row sent and an analysis block
\* that holds a placeholder if the analysis raised or came back empty.
C7_ReportAlwaysDelivered ==
    \A r \in Requests :
        LookupSucceeded(r) =>
            /\ pc[r] # "crashed"
            /\ pc[r] = "done" =>
                  /\ channel[<<r, "embed">>] = DataEmbed(RowOf(r), Assemble(RowOf(r)).value)
                  /\ channel[<<r, "thinking">>].embed # NoEmbed
                  /\ Unusable(heard[r].analysis) =>
                        channel[<<r, "thinking">>].embed.description.kind = "placeholder"

\* What holds of the code in the case of C7: once the report is assembled,
\* whatever the analysis collaborator does the request ends with both.
AnalysisNeverBlocks ==
    \A r \in Requests :
        AnalysisCalled(r) =>
            /\ pc[r] = "done"
            /\ channel[<<r, "embed">>] = DataEmbed(RowOf(r), Assemble(RowOf(r)).value)
            /\ channel[<<r, "thinking">>].embed # NoEmbed
            /\ Unusable(heard[r].analysis) =>
                  channel[<<r, "thinking">>].embed.description.kind = "placeholder"

IsCommand(r) == pc[r] # "idle" /\ StartsWith(msg[r].content, Command)

EmptyArgument(r) == IsCommand(r) /\ Strip(Remove(msg[r].content, Command)) = <<>>

\* C8: a command whose address is empty once trimmed is answered with the
\* usage hint and nothing else; no collaborator is called for it.
C8_UsageHintOnly ==
    \A r \in Requests :
        EmptyArgument(r) =>
            /\ pc[r] = "done"
            /\ Own(r) = Only("usage", UsageHint)
            /\ calls[r] = <<>>
            /\ ~ResolverCalled(r) /\ ~LookupCalled(r) /\ ~AnalysisCalled(r)

C8_Witness ==
    \E r \in Requests :
        /\ EmptyArgument(r)
        /\ msg[r].content # Command
        /\ channel[<<r, "usage">>] = UsageHint

Stages == <<"resolve", "lookup", "assemble", "analysis">>

IsPrefix(s, q) == Len(s) <= Len(q) /\ s = SubSeq(q, 1, Len(s))

\* C9: the stages of a request are called in the order resolve, lookup,
\* assemble, analysis, each once at most; the lookup only with a key of the
\* resolver, the assembly and the analysis only with a row of the lookup;
\* and a None of the resolver or of the lookup ends the request with one
\* failure message and no later stage.
C9_StrictOrder ==
    \A r \in Requests :
        /\ IsPrefix(calls[r], Stages)
        /\ Len(calls[r]) >= 1 <=> ResolverCalled(r)
        /\ Len(calls[r]) >= 2 <=> LookupCalled(r)
        /\ Len(calls[r]) >= 4 <=> AnalysisCalled(r)
        /\ LookupCalled(r) => KeyOf(r) # None
        /\ Len(calls[r]) >= 3 => LookupSucceeded(r)
        /\ ResolverCalled(r) /\ KeyOf(r) = None =>
              /\ pc[r] = "done"
              /\ calls[r] = <<"resolve">>
              /\ Own(r) = Only("status", CouldNotDetermine(Strip(Remove(msg[r].content, Command))))
        /\ LookupCalled(r) /\ RowOf(r) = None =>
              /\ pc[r] = "done"
              /\ calls[r] = <<"resolve", "lookup">>
              /\ Own(r) = Only("status", NoDataFound(KeyOf(r)))

C9_Witness ==
    \E r, q \in Requests :
        /\ calls[r] = <<"resolve", "lookup">> /\ pc[r] = "done" /\ RowOf(r) = None
        /\ calls[q] = Stages /\ pc[q] = "done"

\* The analysis block of r, from what the analysis collaborator answered.
AnalysisOf(r) ==
    LET response == heard[r].analysis
    IN  IF response.kind = "raise" THEN ErrorAnalysis
        ELSE IF Unusable(response) THEN EmptyAnalysis
        ELSE Analysis(response.content.s)

\* The messages of a request that stands at pc[r], from its own message and
\* the answers its own calls got.
OutcomeOf(r) ==
    IF pc[r] = "idle" \/ msg[r].author = Self \/ ~StartsWith(msg[r].content, Command)
    THEN Nothing
    ELSE LET a == Strip(Remove(msg[r].content, Command))
         IN  IF a = <<>> THEN Only("usage", UsageHint)
             ELSE IF ~ResolverCalled(r) THEN Only("status", Analyzing(a))
             ELSE IF KeyOf(r) = None THEN Only("status", CouldNotDetermine(a))
             ELSE IF RowOf(r) = None THEN Only("status", NoDataFound(KeyOf(r)))
             ELSE IF Assemble(RowOf(r)).kind = "raise" THEN Only("status", Analyzing(a))
             ELSE [role \in Roles |->
                     CASE role = "usage" -> Unsent
                       [] role = "status" -> DataFound
                       [] role = "embed" ->
                             IF pc[r] = "send_embed" THEN Unsent
                             ELSE DataEmbed(RowOf(r), Assemble(RowOf(r)).value)
                       [] role = "thinking" ->
                             IF pc[r] \in {"send_embed", "send_thinking"} THEN Unsent
                             ELSE IF pc[r] = "analyze" THEN Thinking
                             ELSE AnalysisEmbed(AnalysisOf(r))]

\* C10: whatever the interleaving of the requests, the messages of each are
\* those its own address and the answers to its own calls give: no other
\* request changes them.
C10_Independent == \A r \in Requests : Own(r) = OutcomeOf(r)

C10_Witness ==
    \E r, q \in Requests :
        /\ pc[r] = "analyze" /\ pc[q] = "resolve"
        /\ address[Frame(r)] # address[Frame(q)]

====
